---- MODULE Spec2Model ----
(***************************************************************************)
(* A model of mcbd-world-sync: the conflict resolver and fingerprint store *)
(* of file_manager.rs, the coordinator loop of main.rs and the listener,   *)
(* connection handler and connector of network.rs.                         *)
(*                                                                         *)
(* Five specifications share the module:                                   *)
(*   SpecResolve  two devices apply handle_conflict to one pair of         *)
(*                fingerprints with the local/remote roles swapped;        *)
(*   Spec         main(): server spawn, initial scan, watch, event loop;   *)
(*   SpecServer   SyncServer::start and its per-connection handlers;       *)
(*   SpecSave     one call of FileManager::save_file_content;              *)
(*   SpecFraming  two length-delimited frames delivered in chunks.         *)
(***************************************************************************)
EXTENDS Integers, Sequences, FiniteSets, TLC

\* ------------------------------------------------------------------ bounds
MaxTime == 2        \* modification times are 0..MaxTime
MaxLen == 1         \* file contents are byte sequences of length 0..MaxLen

\* ------------------------------------------------------- values and files
Bytes == {0}
Times == 0..MaxTime

Contents == UNION {[1..n -> Bytes] : n \in 0..MaxLen}

\* calculate_file_hash: the lower-case hex rendering of the SHA-256 digest of
\* the file's bytes.  The digest is modelled as a collision-free function of
\* the bytes alone; the rendering is a string of digits, most significant
\* first, so that String's ordering is the lexicographic one.
Sha256Hex(content) ==
    <<Len(content)>> \o [i \in 1..MaxLen |-> IF i <= Len(content) THEN content[i] + 1 ELSE 0]

\* Ordering of Rust Strings (byte-wise lexicographic).
RECURSIVE StrGreater(_, _)
StrGreater(s, t) ==
    IF s = <<>> THEN FALSE
    ELSE IF t = <<>> THEN TRUE
    ELSE IF Head(s) /= Head(t) THEN Head(s) > Head(t)
    ELSE StrGreater(Tail(s), Tail(t))

\* struct FileInfo { path, last_modified, size, hash }
FileInfo(path, last_modified, content) ==
    [path |-> path, last_modified |-> last_modified,
     size |-> Len(content), hash |-> Sha256Hex(content)]

\* ------------------------------------------------------ conflict resolver
\* A resolver with the comparison turned round: the older fingerprint wins.
handle_conflict_oldest(l, r) ==
    IF l.last_modified < r.last_modified THEN l ELSE r

\* FileManager::handle_conflict
handle_conflict(l, r) ==
    IF l.last_modified > r.last_modified THEN l ELSE r


\* ------------------------------------------------------------- paths, files
\* A path is the sequence of its components.
IsPrefix(base, path) ==
    /\ Len(base) <= Len(path)
    /\ \A i \in 1..Len(base) : path[i] = base[i]

\* Path::strip_prefix: <<>> for Err(StripPrefixError), <<rel>> for Ok(rel).
strip_prefix(path, base) ==
    IF IsPrefix(base, path)
    THEN << [i \in 1..(Len(path) - Len(base)) |-> path[i + Len(base)]] >>
    ELSE <<>>

\* get_minecraft_paths(): the two candidate roots, in the order main tries them.
MinecraftPaths == << <<"w">>, <<"p">> >>

\* config.paths.minecraft_worlds, the base_path of the FileManager.
BasePath == <<"w">>

\* config.sync.devices
Devices == <<"d1", "d2">>

\* The regular files the model tracks (all under BasePath) and the paths a
\* watch event may name: those files, a path under the second root and a path
\* under neither root.
FilePaths == { <<"w", "a">>, <<"w", "d", "b">> }
EventPaths == FilePaths \cup { <<"p", "a">>, <<"x", "a">> }

Absent == <<>>
\* A present file is <<[content |-> c, mtime |-> t]>>.

\* HashMap::insert
MapInsert(m, k, v) == [x \in (DOMAIN m) \cup {k} |-> IF x = k THEN v ELSE m[x]]
EmptyMap == [x \in {} |-> <<>>]

VARIABLES
    rLocal,     \* the fingerprint device A holds for the path (its local one)
    rRemote,    \* the fingerprint device B holds for the path
    outA,       \* <<>> or <<f>>: handle_conflict(rLocal, rRemote) on device A
    outB        \* <<>> or <<f>>: handle_conflict(rRemote, rLocal) on device B

rvars == <<rLocal, rRemote, outA, outB>>

ConflictPath == <<"a">>

\* The fingerprints of one path: any observed content at any time.
Fingerprints == {FileInfo(ConflictPath, t, c) : t \in Times, c \in Contents}

RInit ==
    /\ rLocal \in Fingerprints
    /\ rRemote \in Fingerprints
    /\ outA = <<>>
    /\ outB = <<>>

\* Device A resolves: its own fingerprint is `local`.
ResolveOnA ==
    /\ outA = <<>>
    /\ outA' = <<handle_conflict(rLocal, rRemote)>>
    /\ UNCHANGED <<rLocal, rRemote, outB>>

\* Device B resolves the same pair with the roles swapped.
ResolveOnB ==
    /\ outB = <<>>
    /\ outB' = <<handle_conflict(rRemote, rLocal)>>
    /\ UNCHANGED <<rLocal, rRemote, outA>>

\* ------------------------------------------------------------ coordinator
MaxEvents == 1      \* the watcher raises at most MaxEvents events

VARIABLES
    pc,            \* where main() is: "spawn", "watcher_new", "next_root", "scan",
                   \* "watch", "recv", "update", "send", "exit_ok", "exit_err"
    rootIdx,       \* index into MinecraftPaths of the candidate root in hand
    srv,           \* the spawned server task: "none", "binding", "listening",
                   \* "bind_failed", "accept_failed", "stopped" (process gone)
    rootExists,    \* the base path of the file manager exists on disk
    fs,            \* fs[p]: the file at absolute path p
    file_cache,    \* FileManager.file_cache: relative path -> FileInfo
    rx,            \* the watcher's channel: events not yet received
    raised,        \* number of reports the watcher has made
    kind,          \* kind of the event being processed
    paths,         \* paths of the event still to process, Head(paths) in hand
    devIdx,        \* index into Devices of the next device to send to
    up,            \* the devices whose listener can be reached while the path
                   \* in hand is propagated
    attempts,      \* attempts[d]: connects to d made for the path in hand
    received,      \* received[d]: messages d's listener got for the path in hand
    computed,      \* <<>> or <<f>>: fingerprint recomputed for the path in hand
    scanned,       \* <<>> or <<s>>: what the calls of the scan just made did
    guard,         \* holder of the file manager's mutex: "free" or "main"
    opened,        \* opened[d]: the connections opened to d for the path in hand, each the items written on it
    pending,       \* the changes (kind, path) reported and not yet propagated, oldest first
    cachedBefore   \* <<>> or <<f>>: the cache entry of that path before the update

cvars == <<pc, rootIdx, srv, rootExists, pending, opened, guard, scanned, fs, file_cache, rx, raised, kind, paths,
           devIdx, up, attempts, received, computed, cachedBefore>>

DeviceSet == {Devices[i] : i \in 1..Len(Devices)}

\* Coordinator states of the design: Idle, Scanning, Watching, Propagating.
Idle == {"spawn", "watcher_new", "next_root"}
Scanning == {"scan", "watch"}
Watching == {"recv"}
Propagating == {"update", "send"}
Looping == Watching \cup Propagating
Exited == {"exit_ok", "exit_err"}

NoAttempts == [d \in DeviceSet |-> 0]
NoneReceived == [d \in DeviceSet |-> <<>>]
NoneOpened == [d \in DeviceSet |-> <<>>]

\* State right after `FileManager::new` (main.rs:133): nothing spawned yet.
CInit ==
    /\ pc = "spawn"
    /\ rootIdx = 1
    /\ srv = "none"
    /\ rootExists \in BOOLEAN
    /\ fs \in [FilePaths -> {Absent} \cup { <<[content |-> c, mtime |-> 0]>> : c \in Contents }]
    /\ (~rootExists) => \A p \in FilePaths : fs[p] = Absent
    /\ file_cache = EmptyMap
    /\ rx = <<>>
    /\ raised = 0
    /\ kind = ""
    /\ paths = <<>>
    /\ devIdx = 1
    /\ up = {}
    /\ attempts = NoAttempts
    /\ received = NoneReceived
    /\ computed = <<>>
    /\ cachedBefore = <<>>
    /\ pending = <<>>
    /\ opened = NoneOpened
    /\ guard = "free"
    /\ scanned = <<>>

\* main returns (`?`, or the end of main): the runtime is dropped, the server
\* task with it, and the process's memory is gone.  The disk stays.
ProcessExit(code) ==
    /\ pc' = code
    /\ srv' = "stopped"
    /\ rootIdx' = 1
    /\ file_cache' = EmptyMap
    /\ rx' = <<>>
    /\ kind' = ""
    /\ paths' = <<>>
    /\ devIdx' = 1
    /\ up' = {}
    /\ attempts' = NoAttempts
    /\ opened' = NoneOpened
    /\ received' = NoneReceived
    /\ computed' = <<>>
    /\ cachedBefore' = <<>>
    /\ scanned' = <<>>
    /\ guard' = "free"
    /\ pending' = <<>>
    /\ UNCHANGED <<rootExists, fs, raised>>

\* main.rs:136-143: the server is spawned as its own task; main goes on.
SpawnServer ==
    /\ pc = "spawn"
    /\ pc' = "watcher_new"
    /\ srv' = "binding"
    /\ UNCHANGED <<rootIdx, rootExists, pending, opened, guard, scanned, fs, file_cache, rx, raised, kind, paths,
                   devIdx, up, attempts, received, computed, cachedBefore>>

\* main.rs:149: RecommendedWatcher::new(..)?
WatcherNew ==
    /\ pc = "watcher_new"
    /\ \E ok \in BOOLEAN :
          IF ok
          THEN /\ pc' = "next_root"
               /\ UNCHANGED <<rootIdx, srv, rootExists, pending, opened, guard, scanned, fs, file_cache, rx, raised, kind,
                              paths, devIdx, up, attempts, received, computed, cachedBefore>>
          ELSE ProcessExit("exit_err")

\* worlds_path.exists() (main.rs:156): the base path exists or not for the
\* whole run; another candidate directory is looked up when main gets to it.
PathExists(path) == IF path = BasePath THEN {rootExists} ELSE BOOLEAN

\* main.rs:152-160 and 253-259: the head of `for path in get_minecraft_paths()`.
NextRoot ==
    /\ pc = "next_root"
    /\ IF rootIdx > Len(MinecraftPaths)
       THEN ProcessExit("exit_ok")
       ELSE /\ \E exists \in PathExists(MinecraftPaths[rootIdx]) :
                  IF exists
                  THEN pc' = "scan" /\ UNCHANGED rootIdx
                  ELSE pc' = "next_root" /\ rootIdx' = rootIdx + 1
            /\ scanned' = <<>>
            /\ UNCHANGED <<srv, rootExists, pending, opened, guard, fs, file_cache, rx, raised, kind, paths,
                           devIdx, up, attempts, received, computed, cachedBefore>>

\* The orders in which read_dir may yield the files that exist.
Present(fsys) == {p \in FilePaths : fsys[p] /= Absent}
Orders(S) == {o \in [1..Cardinality(S) -> S] : \A i, j \in 1..Cardinality(S) : o[i] = o[j] => i = j}

\* What the calls made for one scanned file do: all succeed ("ok"),
\* fs::metadata fails ("meta_err"), metadata.modified() fails ("mtime_err"),
\* calculate_file_hash fails ("hash_err").
ScanOutcomes == {"ok", "meta_err", "mtime_err", "hash_err"}

\* FileManager::scan_directory_recursive over the files in read_dir order:
\* a file whose metadata cannot be read is passed over, `?` on modified() and
\* on calculate_file_hash returns the error from the whole scan, leaving the
\* entries inserted so far in the cache.
RECURSIVE scan_directory_recursive(_, _, _, _, _)
scan_directory_recursive(order, outcome, fsys, cache, files) ==
    IF order = <<>> THEN [ok |-> TRUE, cache |-> cache, files |-> files]
    ELSE LET path == Head(order)
             rel == strip_prefix(path, BasePath)
         IN  IF outcome[path] = "meta_err"
             THEN scan_directory_recursive(Tail(order), outcome, fsys, cache, files)
             ELSE IF rel = <<>> \/ outcome[path] /= "ok"
             THEN [ok |-> FALSE, cache |-> cache, files |-> files]
             ELSE LET file_info == FileInfo(rel[1], fsys[path][1].mtime, fsys[path][1].content)
                  IN  scan_directory_recursive(Tail(order), outcome, fsys,
                                               MapInsert(cache, rel[1], file_info),
                                               Append(files, file_info))

\* FileManager::scan_directory: read_dir of the base path may fail itself.
scan_directory(dirOk, order, outcome, fsys, cache) ==
    IF dirOk
    THEN scan_directory_recursive(order, outcome, fsys, cache, <<>>)
    ELSE [ok |-> FALSE, cache |-> cache, files |-> <<>>]

\* file_manager.lock().await by main: granted when nobody holds the mutex.
lock(g) == "main"

\* The guard goes out of scope or is dropped: the mutex is free again.
drop_guard_kept(g) == g
drop_guard(g) == "free"

\* main.rs:163: main takes the lock for the initial scan.
LockScan ==
    /\ pc = "scan"
    /\ guard = "free"
    /\ guard' = lock(guard)
    /\ UNCHANGED <<pc, rootIdx, srv, rootExists, pending, opened, scanned, fs, file_cache, rx, raised, kind,
                   paths, devIdx, up, attempts, received, computed, cachedBefore>>

\* main.rs:164-177: the initial scan, under the lock of the file manager; the
\* guard is dropped on success and goes out of scope on `continue`.
Scan ==
    /\ pc = "scan"
    /\ guard = "main"
    /\ guard' = drop_guard(guard)
    /\ \E order \in Orders(Present(fs)), outcome \in [FilePaths -> ScanOutcomes],
          dirOk \in BOOLEAN :
          LET r == scan_directory(dirOk /\ rootExists, order, outcome, fs, file_cache)
          IN  /\ file_cache' = r.cache
              /\ scanned' = <<[dirOk |-> dirOk /\ rootExists,
                               unreadable |-> {p \in Present(fs) : outcome[p] /= "ok"},
                               ok |-> r.ok]>>
              /\ IF r.ok
                 THEN pc' = "watch" /\ UNCHANGED rootIdx
                 ELSE pc' = "next_root" /\ rootIdx' = rootIdx + 1
    /\ UNCHANGED <<srv, rootExists, pending, opened, fs, rx, raised, kind, paths,
                   devIdx, up, attempts, received, computed, cachedBefore>>

\* main.rs:179-187: watcher.watch(worlds_path, Recursive)
Watch ==
    /\ pc = "watch"
    /\ \E ok \in BOOLEAN :
          IF ok
          THEN pc' = "recv" /\ UNCHANGED rootIdx
          ELSE pc' = "next_root" /\ rootIdx' = rootIdx + 1
    /\ scanned' = <<>>
    /\ UNCHANGED <<srv, rootExists, pending, opened, guard, fs, file_cache, rx, raised, kind, paths,
                   devIdx, up, attempts, received, computed, cachedBefore>>

\* ---------------------------------------------------- the watcher and the disk
Event(k, ps) == [ok |-> TRUE, kind |-> k, paths |-> ps]
ErrEvent == [ok |-> FALSE, kind |-> "", paths |-> <<>>]

CanRaise == pc \in Looping /\ raised < MaxEvents

\* The changes an event stands for: one per path it names, in order.
Changes(e) == [i \in 1..Len(e.paths) |-> [kind |-> e.kind, path |-> e.paths[i]]]

RECURSIVE AllChanges(_)
AllChanges(events) ==
    IF events = <<>> THEN <<>> ELSE Changes(Head(events)) \o AllChanges(Tail(events))

\* The watcher puts the events of one report on the channel, in order.
Report(events) ==
    /\ rx' = rx \o events
    /\ pending' = pending \o AllChanges(events)

\* What the watcher reports for a write: a file that did not exist is
\* reported as created and then as modified.
WriteEvents(f, p) ==
    IF f = Absent
    THEN <<Event("Create", <<p>>), Event("Modify", <<p>>)>>
    ELSE <<Event("Modify", <<p>>)>>

\* The modification times a write may stamp on a file: the clock has moved
\* by at most one tick since the file's previous stamp.
WriteTimes(f) == LET m == IF f = Absent THEN 0 ELSE f[1].mtime IN {m, m + 1} \cap Times

\* A file under the base path is written; the watcher reports it.
FsWrite ==
    /\ CanRaise
    /\ rootExists
    /\ \E p \in FilePaths, c \in Contents : \E t \in WriteTimes(fs[p]) :
          /\ fs' = [fs EXCEPT ![p] = <<[content |-> c, mtime |-> t]>>]
          /\ Report(WriteEvents(fs[p], p))
    /\ raised' = raised + 1
    /\ UNCHANGED <<pc, rootIdx, srv, rootExists, opened, guard, scanned, file_cache, kind, paths,
                   devIdx, up, attempts, received, computed, cachedBefore>>

\* A file is deleted; the watcher reports it.
FsRemove ==
    /\ CanRaise
    /\ \E p \in Present(fs) :
          /\ fs' = [fs EXCEPT ![p] = Absent]
          /\ Report(<<Event("Remove", <<p>>)>>)
    /\ raised' = raised + 1
    /\ UNCHANGED <<pc, rootIdx, srv, rootExists, opened, guard, scanned, file_cache, kind, paths,
                   devIdx, up, attempts, received, computed, cachedBefore>>

\* A file is renamed; the watcher reports one event naming both paths.
FsRename ==
    /\ CanRaise
    /\ \E p \in Present(fs) : \E q \in FilePaths \ {p} :
          /\ fs' = [fs EXCEPT ![q] = fs[p], ![p] = Absent]
          /\ Report(<<Event("Modify", <<p, q>>)>>)
    /\ raised' = raised + 1
    /\ UNCHANGED <<pc, rootIdx, srv, rootExists, opened, guard, scanned, file_cache, kind, paths,
                   devIdx, up, attempts, received, computed, cachedBefore>>

\* The watcher reports a path without any change of content (an access, a
\* metadata event), possibly a path that is not under the watched root.
RaiseEvent ==
    /\ CanRaise
    /\ \E p \in EventPaths : Report(<<Event("Access", <<p>>)>>)
    /\ raised' = raised + 1
    /\ UNCHANGED <<pc, rootIdx, srv, rootExists, opened, guard, scanned, fs, file_cache, kind, paths,
                   devIdx, up, attempts, received, computed, cachedBefore>>

\* The watcher reports an error instead of an event.
RaiseWatchError ==
    /\ CanRaise
    /\ Report(<<ErrEvent>>)
    /\ raised' = raised + 1
    /\ UNCHANGED <<pc, rootIdx, srv, rootExists, opened, guard, scanned, fs, file_cache, kind, paths,
                   devIdx, up, attempts, received, computed, cachedBefore>>

\* ------------------------------------------------------------- event loop
worlds_path == MinecraftPaths[rootIdx]

\* FileManager::get_file_info: Option<&FileInfo> as <<>> or <<info>>.
get_file_info(cache, rel) == IF rel \in DOMAIN cache THEN <<cache[rel]>> ELSE <<>>

\* FileManager::update_file_info
update_file_info_alone(cache, rel, info) == [x \in {rel} |-> info]
update_file_info(cache, rel, info) == MapInsert(cache, rel, info)

\* fs::metadata(&path): Err for a path with no file behind it.
metadata(fsys, path) == IF path \in FilePaths THEN fsys[path] ELSE Absent

\* What fs::metadata(&path) may find: the file of the model for a path under
\* the base path, and for any other path whatever is there when it is read.
Untracked == {Absent} \cup { <<[content |-> c, mtime |-> 0]>> : c \in Contents }
Metadata(fsys, path) == IF path \in FilePaths THEN {metadata(fsys, path)} ELSE Untracked

\* rx.recv() on the channel: the oldest event not yet received.
recv_newest(q) == [event |-> q[Len(q)], rest |-> SubSeq(q, 1, Len(q) - 1)]
recv(q) == [event |-> Head(q), rest |-> Tail(q)]

\* main.rs:191-192, 249-250: rx.recv() yields the next event or a watch
\* error; the error is logged and recv() is called again.
Recv ==
    /\ pc = "recv"
    /\ rx /= <<>>
    /\ rx' = recv(rx).rest
    /\ IF recv(rx).event.ok /\ recv(rx).event.paths /= <<>>
       THEN /\ kind' = recv(rx).event.kind
            /\ paths' = recv(rx).event.paths
            /\ pc' = "update"
       ELSE UNCHANGED <<pc, kind, paths>>
    /\ UNCHANGED <<rootIdx, srv, rootExists, pending, opened, guard, scanned, fs, file_cache, raised, devIdx, up,
                   attempts, received, computed, cachedBefore>>

\* main.rs:197: main takes the lock for the path in hand.
LockUpdate ==
    /\ pc = "update"
    /\ guard = "free"
    /\ guard' = lock(guard)
    /\ UNCHANGED <<pc, rootIdx, srv, rootExists, pending, opened, scanned, fs, file_cache, rx, raised, kind,
                   paths, devIdx, up, attempts, received, computed, cachedBefore>>

\* main.rs:196-232: "Update file info" for Head(paths), under the lock.
\* hashOk and mtimeOk are the outcomes of calculate_file_hash and of
\* metadata.modified(); the latter is followed by `?`, which returns from main.
UpdateFileInfo ==
    /\ pc = "update"
    /\ guard = "main"
    /\ \E hashOk \in BOOLEAN, mtimeOk \in BOOLEAN, reachable \in SUBSET DeviceSet,
          meta \in Metadata(fs, Head(paths)) :
          LET path == Head(paths)
              rel == strip_prefix(path, worlds_path)
              computes == meta /= Absent /\ rel /= <<>> /\ hashOk
          IN  IF computes /\ ~mtimeOk
              THEN ProcessExit("exit_err")
              ELSE /\ pc' = "send"
                   /\ devIdx' = 1
                   /\ up' = reachable
                   /\ attempts' = NoAttempts
                   /\ opened' = NoneOpened
                   /\ received' = NoneReceived
                   /\ cachedBefore' = IF rel = <<>> THEN <<>>
                                      ELSE get_file_info(file_cache, rel[1])
                   /\ IF computes
                      THEN LET file_info == FileInfo(rel[1], meta[1].mtime, meta[1].content)
                           IN  /\ computed' = <<file_info>>
                               /\ file_cache' = update_file_info(file_cache, rel[1], file_info)
                      ELSE /\ computed' = <<>>
                           /\ UNCHANGED file_cache
                   /\ guard' = drop_guard(guard)
                   /\ UNCHANGED <<rootIdx, srv, rootExists, pending, scanned, fs, rx, raised, kind, paths>>

\* enum SyncMessage
FileChangeMsg(path, change_type) ==
    [tag |-> "FileChange", path |-> path, data |-> change_type]
FileContentMsg(path, content) ==
    [tag |-> "FileContent", path |-> path, data |-> content]
SyncRequestMsg == [tag |-> "SyncRequest", path |-> <<>>, data |-> <<>>]
SyncResponseMsg == [tag |-> "SyncResponse", path |-> <<>>, data |-> <<>>]

\* serde_json::to_vec(&message): the body is the list of the JSON tokens of
\* the externally tagged value; a unit variant is its name alone.
to_vec(message) ==
    IF message.tag \in {"SyncRequest", "SyncResponse"}
    THEN <<message.tag>>
    ELSE <<message.tag, message.path, message.data>>

\* serde_json::from_slice::<SyncMessage>(&bytes): <<>> for Err, <<m>> for Ok(m).
from_slice(bytes) ==
    IF Len(bytes) = 1 /\ bytes[1] \in {"SyncRequest", "SyncResponse"}
    THEN <<[tag |-> bytes[1], path |-> <<>>, data |-> <<>>]>>
    ELSE IF Len(bytes) = 3 /\ bytes[1] \in {"FileChange", "FileContent"}
    THEN <<[tag |-> bytes[1], path |-> bytes[2], data |-> bytes[3]]>>
    ELSE <<>>

\* What framed.next() yields: Some(Ok(bytes)), Some(Err(e)), None.
Frame(bytes) == [item |-> "frame", bytes |-> bytes]
FrameErr == [item |-> "err", bytes |-> <<>>]
Eof == [item |-> "eof", bytes |-> <<>>]

\* SyncClient::send_file_change: connect, frame one FileChange, send it.  The
\* connect fails for a device whose listener is not reachable.
send_file_change_pooled(device, rel, change_type, reachable) ==
    IF device \in reachable
    THEN [ok |-> TRUE, delivered |-> <<[path |-> rel, change_type |-> change_type]>>,
          conns |-> << <<Frame(to_vec(FileChangeMsg(rel, change_type)))>> >>]
    ELSE [ok |-> FALSE, delivered |-> <<>>, conns |-> <<>>]
send_file_change(device, rel, change_type, reachable) ==
    IF device \in reachable
    THEN [ok |-> TRUE, delivered |-> <<[path |-> rel, change_type |-> change_type]>>,
          conns |-> << <<Frame(to_vec(FileChangeMsg(rel, change_type))), Eof>> >>]
    ELSE [ok |-> FALSE, delivered |-> <<>>, conns |-> <<>>]

\* A send loop that gives up at the first failed send.
NextDeviceStopOnError(idx, sendOk) == IF sendOk THEN idx + 1 ELSE Len(Devices) + 1

\* main.rs:235-243: `if let Err(e) = .. { error!(..) }`: the loop goes on to
\* the next device whatever the send returned.
NextDevice(idx, sendOk) == idx + 1

\* main.rs:235-243: one iteration of `for device in &config.sync.devices`.
\* The argument path.strip_prefix(worlds_path)? returns from main on Err.
Send ==
    /\ pc = "send"
    /\ devIdx <= Len(Devices)
    /\ LET rel == strip_prefix(Head(paths), worlds_path)
           device == Devices[devIdx]
       IN  IF rel = <<>>
           THEN ProcessExit("exit_err")
           ELSE LET r == send_file_change(device, rel[1], kind, up)
                IN  /\ attempts' = [attempts EXCEPT ![device] = @ + 1]
                    /\ received' = [received EXCEPT ![device] = @ \o r.delivered]
                    /\ opened' = [opened EXCEPT ![device] = @ \o r.conns]
                    /\ devIdx' = NextDevice(devIdx, r.ok)
                    /\ UNCHANGED <<pc, rootIdx, srv, rootExists, pending, guard, scanned, fs, file_cache, rx, raised,
                                   kind, paths, up, computed, cachedBefore>>

\* main.rs:245-247: list_worlds after the sends, then the next path of the
\* event, or back to rx.recv().
ListWorlds ==
    /\ pc = "send"
    /\ devIdx > Len(Devices)
    /\ paths' = Tail(paths)
    /\ pc' = IF Tail(paths) = <<>> THEN "recv" ELSE "update"
    /\ kind' = IF Tail(paths) = <<>> THEN "" ELSE kind
    /\ devIdx' = 1
    /\ up' = {}
    /\ attempts' = NoAttempts
    /\ opened' = NoneOpened
    /\ received' = NoneReceived
    /\ computed' = <<>>
    /\ cachedBefore' = <<>>
    /\ pending' = Tail(pending)
    /\ UNCHANGED <<rootIdx, srv, rootExists, guard, scanned, fs, file_cache, rx, raised>>

\* SyncServer::start, the bind (network.rs:33): Err is returned to the spawned
\* task, which logs it and ends (main.rs:139-143).  main is not told.
ServerBind ==
    /\ srv = "binding"
    /\ \E ok \in BOOLEAN : srv' = IF ok THEN "listening" ELSE "bind_failed"
    /\ UNCHANGED <<pc, rootIdx, rootExists, pending, opened, guard, scanned, fs, file_cache, rx, raised, kind, paths,
                   devIdx, up, attempts, received, computed, cachedBefore>>

\* ---------------------------------------------------------------- server
MaxConns == 2       \* inbound connections are numbered 1..MaxConns
MaxFrames == 2      \* the peers put at most MaxFrames items on the wire in all

VARIABLES
    conn,          \* conn[c]: "none" (not accepted yet), "open" (its handler
                   \* runs), "closed" (handle_connection has returned)
    inbox,         \* inbox[c]: what framed.next() will yield on c, in order
    dispatched,    \* dispatched[c]: the messages the handler of c has matched
    sent,          \* number of items the peers have put on the wire
    written,       \* written[c]: the messages the peer has sent on c, in order
    log            \* the lines the last step of the server wrote to the log

svars == <<conn, inbox, dispatched, sent, written, log>>

Conns == 1..MaxConns

Line(level, msg, c) == [level |-> level, msg |-> msg, conn |-> c]

\* The bodies a peer may put in a frame: the encodings of the four kinds of
\* message and a body that is no SyncMessage.
Garbage == <<"Bogus">>
PeerBodies ==
    {to_vec(FileChangeMsg(<<"a">>, "Modify")), to_vec(SyncRequestMsg),
     to_vec(SyncResponseMsg), Garbage}
    \cup {to_vec(FileContentMsg(<<"a">>, c)) : c \in Contents}

SInit ==
    /\ conn = [c \in Conns |-> "none"]
    /\ inbox = [c \in Conns |-> <<>>]
    /\ dispatched = [c \in Conns |-> <<>>]
    /\ sent = 0
    /\ written = [c \in Conns |-> <<>>]
    /\ log = <<>>

\* network.rs:37-44: listener.accept() returns a connection, whose handler is
\* spawned as a task of its own.
Accept(c) ==
    /\ srv = "listening"
    /\ conn[c] = "none"
    /\ conn' = [conn EXCEPT ![c] = "open"]
    /\ log' = <<Line("info", "New connection", c)>>
    /\ UNCHANGED <<inbox, dispatched, sent, written>>
    /\ UNCHANGED cvars

\* network.rs:37: `listener.accept().await?`: an accept error returns from
\* start(); main.rs:140-142 logs it.  Spawned handlers are not affected.
AcceptFail ==
    /\ srv = "listening"
    /\ srv' = "accept_failed"
    /\ log' = <<Line("error", "Server error", 0)>>
    /\ UNCHANGED <<conn, inbox, dispatched, sent, written>>
    /\ UNCHANGED <<pc, rootIdx, rootExists, pending, opened, guard, scanned, fs, file_cache, rx, raised, kind, paths,
                   devIdx, up, attempts, received, computed, cachedBefore>>

\* The peer's end of a connection still writes: nothing it sent ended the stream.
PeerOpen(c) ==
    /\ conn[c] = "open"
    /\ IF inbox[c] = <<>> THEN TRUE ELSE inbox[c][Len(inbox[c])].item = "frame"

\* A peer writes one well-delimited frame.
PeerSend(c) ==
    /\ PeerOpen(c)
    /\ sent < MaxFrames
    /\ \E b \in PeerBodies :
          /\ inbox' = [inbox EXCEPT ![c] = Append(@, Frame(b))]
          /\ written' = [written EXCEPT ![c] = @ \o from_slice(b)]
    /\ sent' = sent + 1
    /\ log' = <<>>
    /\ UNCHANGED <<conn, dispatched>>
    /\ UNCHANGED cvars

\* A peer writes bytes that are no frame (a length over the codec's limit),
\* or the connection breaks: the next read fails.
PeerCorrupt(c) ==
    /\ PeerOpen(c)
    /\ sent < MaxFrames
    /\ inbox' = [inbox EXCEPT ![c] = Append(@, FrameErr)]
    /\ sent' = sent + 1
    /\ log' = <<>>
    /\ UNCHANGED <<conn, dispatched, written>>
    /\ UNCHANGED cvars

\* A peer closes its end.
PeerClose(c) ==
    /\ PeerOpen(c)
    /\ sent < MaxFrames
    /\ inbox' = [inbox EXCEPT ![c] = Append(@, Eof)]
    /\ sent' = sent + 1
    /\ log' = <<>>
    /\ UNCHANGED <<conn, dispatched, written>>
    /\ UNCHANGED cvars

\* A listener that stops when a connection handler ends on an error.
srv_after_handler_stop(s, item) == IF item = "err" THEN "accept_failed" ELSE s

\* network.rs:40-44: the handler runs in a spawned task; what it returns is
\* logged there and never reaches the accept loop.
srv_after_handler(s, item) == s

\* The lines handle_connection writes for one item (network.rs:57-76).
handler_log(c, item, decoded) ==
    IF item = "err" THEN <<Line("error", "Error receiving message", c)>>
    ELSE IF item = "frame" /\ decoded /= <<>>
    THEN <<Line("info", decoded[1].tag, c)>>
    ELSE <<>>

\* framed.next() on a connection: the oldest item not yet read.
framed_next_newest(q) == [item |-> q[Len(q)], rest |-> SubSeq(q, 1, Len(q) - 1)]
framed_next(q) == [item |-> Head(q), rest |-> Tail(q)]

\* network.rs:51-80: one turn of `while let Some(msg) = framed.next().await`.
\* Every arm of the match on the message only logs; a body that is no
\* SyncMessage falls through `if let Ok(message)`; Err breaks out of the
\* loop; None ends it.
HandleNext(c) ==
    /\ conn[c] = "open"
    /\ inbox[c] /= <<>>
    /\ LET next == framed_next(inbox[c]).item
           decoded == IF next.item = "frame" THEN from_slice(next.bytes) ELSE <<>>
       IN  /\ inbox' = [inbox EXCEPT ![c] = framed_next(@).rest]
           /\ conn' = [conn EXCEPT ![c] = IF next.item = "frame" THEN "open" ELSE "closed"]
           /\ dispatched' = [dispatched EXCEPT ![c] = @ \o decoded]
           /\ log' = handler_log(c, next.item, decoded)
           /\ srv' = srv_after_handler(srv, next.item)
    /\ UNCHANGED <<sent, written>>
    /\ UNCHANGED <<pc, rootIdx, rootExists, pending, opened, guard, scanned, fs, file_cache, rx, raised, kind, paths,
                   devIdx, up, attempts, received, computed, cachedBefore>>

\* The process as the server task sees it: spawned by main (main.rs:139), the
\* file manager built and nothing scanned yet.
SCoord ==
    /\ pc = "watcher_new"
    /\ rootIdx = 1
    /\ srv = "binding"
    /\ rootExists = TRUE
    /\ fs \in {[p \in FilePaths |-> Absent], [p \in FilePaths |-> <<[content |-> <<>>, mtime |-> 0]>>]}
    /\ file_cache = EmptyMap
    /\ rx = <<>>
    /\ raised = 0
    /\ kind = ""
    /\ paths = <<>>
    /\ devIdx = 1
    /\ up = {}
    /\ attempts = NoAttempts
    /\ received = NoneReceived
    /\ computed = <<>>
    /\ cachedBefore = <<>>
    /\ pending = <<>>
    /\ opened = NoneOpened
    /\ guard = "free"
    /\ scanned = <<>>

\* --------------------------------------------------- inbound content writer
VARIABLES
    wPath,         \* the relative path given to save_file_content
    wContent,      \* the bytes given to it
    wDisk,         \* wDisk[p]: the file at the resolved absolute path p
    wResult        \* <<>> before the call, then <<"ok">> or <<"err">>

wvars == <<wPath, wContent, wDisk, wResult>>

\* Component::ParentDir
ParentDir == ".."

\* The relative paths a FileContent message may carry.
WritePaths ==
    { <<"a">>, <<"d", "b">>, <<ParentDir, "x", "a">>, <<"d", ParentDir, "a">>,
      <<"d", ParentDir, ParentDir, "x", "a">> }

\* The files of the disk the writer can reach, under the base path or not.
DiskPaths == FilePaths \cup { <<"x", "a">> }

\* PathBuf::join of a relative path: the components are appended as they are.
join(base, path) == base \o path

\* The file the operating system opens for a path: each ParentDir component
\* steps out of the directory reached so far.
RECURSIVE Resolved(_, _)
Resolved(path, reached) ==
    IF path = <<>> THEN reached
    ELSE IF Head(path) = ParentDir
    THEN Resolved(Tail(path), IF reached = <<>> THEN <<>>
                              ELSE SubSeq(reached, 1, Len(reached) - 1))
    ELSE Resolved(Tail(path), Append(reached, Head(path)))

\* FileManager::save_file_content: join, create_dir_all(parent)?, fs::write?.
\* ioOk is the outcome of the two file-system calls.
save_file_content(disk, path, content, ioOk) ==
    LET full_path == join(BasePath, path)
        target == Resolved(full_path, <<>>)
    IN  IF ioOk /\ target \in DOMAIN disk
        THEN [ok |-> TRUE, disk |-> [disk EXCEPT ![target] = <<content>>]]
        ELSE [ok |-> FALSE, disk |-> disk]

WInit ==
    /\ wPath \in WritePaths
    /\ wContent \in Contents
    /\ wDisk \in [DiskPaths -> {Absent} \cup {<<c>> : c \in Contents}]
    /\ wResult = <<>>

\* One call of save_file_content.
SaveFileContent ==
    /\ wResult = <<>>
    /\ \E ioOk \in BOOLEAN :
          LET r == save_file_content(wDisk, wPath, wContent, ioOk)
          IN  /\ wDisk' = r.disk
              /\ wResult' = IF r.ok THEN <<"ok">> ELSE <<"err">>
    /\ UNCHANGED <<wPath, wContent>>

\* The writer's variables while it is not exercised.
WIdle ==
    /\ wPath = <<"a">>
    /\ wContent = <<>>
    /\ wDisk = [p \in DiskPaths |-> Absent]
    /\ wResult = <<>>

\* ------------------------------------------------ length-delimited framing
MaxBody == 2

VARIABLES
    fMsgs,         \* the two message bodies the writer sends, in order
    fWire,         \* bytes written to the stream and not yet delivered
    fBuf,          \* the reader's buffer: bytes delivered and not yet decoded
    fOut,          \* the bodies framed.next() has yielded, in order
    fChunks        \* number of chunks the stream has delivered to the reader

fvars == <<fMsgs, fWire, fBuf, fOut, fChunks>>

\* The bytes of a serialized body, and the bodies the writer may send.
BodyBytes == {0, 1}
Bodies == UNION {[1..n -> BodyBytes] : n \in 0..MaxBody}

\* The length field of LengthDelimitedCodec::new(): four bytes, big-endian.
length_field_length == 4
Header(n) == <<(n \div 16777216) % 256, (n \div 65536) % 256, (n \div 256) % 256, n % 256>>
HeaderValue(h) == ((h[1] * 256 + h[2]) * 256 + h[3]) * 256 + h[4]

\* framed.send(bytes): the encoder writes the length field, then the body.
encode(body) == Header(Len(body)) \o body

\* A reader that takes what has arrived after the length field for the body.
decode_unbuffered(buf) ==
    IF Len(buf) < length_field_length
    THEN [frame |-> <<>>, rest |-> buf]
    ELSE LET n == HeaderValue(SubSeq(buf, 1, length_field_length))
             end == IF Len(buf) < length_field_length + n THEN Len(buf)
                    ELSE length_field_length + n
         IN  [frame |-> <<SubSeq(buf, length_field_length + 1, end)>>,
              rest |-> SubSeq(buf, end + 1, Len(buf))]

\* framed.next(): the decoder yields a body once the length field and the
\* whole body it announces are in the buffer, and leaves the rest buffered.
decode(buf) ==
    IF Len(buf) < length_field_length
    THEN [frame |-> <<>>, rest |-> buf]
    ELSE LET n == HeaderValue(SubSeq(buf, 1, length_field_length))
         IN  IF Len(buf) < length_field_length + n
             THEN [frame |-> <<>>, rest |-> buf]
             ELSE [frame |-> <<SubSeq(buf, length_field_length + 1, length_field_length + n)>>,
                   rest |-> SubSeq(buf, length_field_length + n + 1, Len(buf))]

FInit ==
    /\ fMsgs \in [1..2 -> Bodies]
    /\ fWire = encode(fMsgs[1]) \o encode(fMsgs[2])
    /\ fBuf = <<>>
    /\ fOut = <<>>
    /\ fChunks = 0

\* The stream delivers the next chunk, of any size, to the reader.
Deliver ==
    /\ fWire /= <<>>
    /\ \E k \in 1..Len(fWire) :
          /\ fBuf' = fBuf \o SubSeq(fWire, 1, k)
          /\ fWire' = SubSeq(fWire, k + 1, Len(fWire))
    /\ fChunks' = fChunks + 1
    /\ UNCHANGED <<fMsgs, fOut>>

\* framed.next() yields a body.
FramedNext ==
    /\ decode(fBuf).frame /= <<>>
    /\ fOut' = fOut \o decode(fBuf).frame
    /\ fBuf' = decode(fBuf).rest
    /\ UNCHANGED <<fMsgs, fWire, fChunks>>

\* The framing variables while no stream is exercised.
FIdle ==
    /\ fMsgs = <<>>
    /\ fWire = <<>>
    /\ fBuf = <<>>
    /\ fOut = <<>>
    /\ fChunks = 0

vars == <<rvars, cvars, svars, wvars, fvars>>

\* The resolver's variables while the coordinator runs.
RIdle ==
    /\ rLocal = FileInfo(ConflictPath, 0, <<>>)
    /\ rRemote = FileInfo(ConflictPath, 0, <<>>)
    /\ outA = <<>>
    /\ outB = <<>>

\* The coordinator's variables while the resolver is exercised.
CIdle ==
    /\ pc = "spawn"
    /\ rootIdx = 1
    /\ srv = "none"
    /\ rootExists = FALSE
    /\ fs = [p \in FilePaths |-> Absent]
    /\ file_cache = EmptyMap
    /\ rx = <<>>
    /\ raised = 0
    /\ kind = ""
    /\ paths = <<>>
    /\ devIdx = 1
    /\ up = {}
    /\ attempts = NoAttempts
    /\ received = NoneReceived
    /\ computed = <<>>
    /\ cachedBefore = <<>>
    /\ pending = <<>>
    /\ opened = NoneOpened
    /\ guard = "free"
    /\ scanned = <<>>

\* The resolver on two devices.
ResolveInit == RInit /\ CIdle /\ SInit /\ WIdle /\ FIdle
ResolveNext ==
    \/ ResolveOnA /\ UNCHANGED <<cvars, svars, wvars, fvars>>
    \/ ResolveOnB /\ UNCHANGED <<cvars, svars, wvars, fvars>>
SpecResolve == ResolveInit /\ [][ResolveNext]_vars

\* main() with its watcher and disk; the server task only binds.
Init == CInit /\ RIdle /\ SInit /\ WIdle /\ FIdle
Next ==
    \/ SpawnServer /\ UNCHANGED <<rvars, svars, wvars, fvars>>
    \/ ServerBind /\ UNCHANGED <<rvars, svars, wvars, fvars>>
    \/ WatcherNew /\ UNCHANGED <<rvars, svars, wvars, fvars>>
    \/ NextRoot /\ UNCHANGED <<rvars, svars, wvars, fvars>>
    \/ LockScan /\ UNCHANGED <<rvars, svars, wvars, fvars>>
    \/ Scan /\ UNCHANGED <<rvars, svars, wvars, fvars>>
    \/ Watch /\ UNCHANGED <<rvars, svars, wvars, fvars>>
    \/ FsWrite /\ UNCHANGED <<rvars, svars, wvars, fvars>>
    \/ FsRemove /\ UNCHANGED <<rvars, svars, wvars, fvars>>
    \/ FsRename /\ UNCHANGED <<rvars, svars, wvars, fvars>>
    \/ RaiseEvent /\ UNCHANGED <<rvars, svars, wvars, fvars>>
    \/ RaiseWatchError /\ UNCHANGED <<rvars, svars, wvars, fvars>>
    \/ Recv /\ UNCHANGED <<rvars, svars, wvars, fvars>>
    \/ LockUpdate /\ UNCHANGED <<rvars, svars, wvars, fvars>>
    \/ UpdateFileInfo /\ UNCHANGED <<rvars, svars, wvars, fvars>>
    \/ Send /\ UNCHANGED <<rvars, svars, wvars, fvars>>
    \/ ListWorlds /\ UNCHANGED <<rvars, svars, wvars, fvars>>
Spec == Init /\ [][Next]_vars

\* The server task, its connection handlers and the peers.
ServerInit == SCoord /\ RIdle /\ SInit /\ WIdle /\ FIdle
ServerNext ==
    \/ ServerBind /\ UNCHANGED <<rvars, svars, wvars, fvars>>
    \/ AcceptFail /\ UNCHANGED <<rvars, wvars, fvars>>
    \/ \E c \in Conns : Accept(c) /\ UNCHANGED <<rvars, wvars, fvars>>
    \/ \E c \in Conns : PeerSend(c) /\ UNCHANGED <<rvars, wvars, fvars>>
    \/ \E c \in Conns : PeerCorrupt(c) /\ UNCHANGED <<rvars, wvars, fvars>>
    \/ \E c \in Conns : PeerClose(c) /\ UNCHANGED <<rvars, wvars, fvars>>
    \/ \E c \in Conns : HandleNext(c) /\ UNCHANGED <<rvars, wvars, fvars>>
SpecServer == ServerInit /\ [][ServerNext]_vars

\* save_file_content called on any path, bytes and disk.
SaveInit == WInit /\ RIdle /\ CIdle /\ SInit /\ FIdle
SaveNext ==
    \/ SaveFileContent /\ UNCHANGED <<rvars, cvars, svars, fvars>>
SpecSave == SaveInit /\ [][SaveNext]_vars

\* Two frames written back to back and delivered in chunks to one reader.
FramingInit == FInit /\ RIdle /\ CIdle /\ SInit /\ WIdle
FramingNext ==
    \/ Deliver /\ UNCHANGED <<rvars, cvars, svars, wvars>>
    \/ FramedNext /\ UNCHANGED <<rvars, cvars, svars, wvars>>
SpecFraming == FramingInit /\ [][FramingNext]_vars

\* ================================================================== claims

\* ---- C1.  The resolver is commutative: device A, resolving (local, remote),
\* and device B, resolving the same pair with the roles swapped, pick the
\* same fingerprint, also when the two have equal modified_at and differing
\* content_hash.
C1_ResolveCommutative ==
    (outA /= <<>> /\ outB /= <<>>) => outA = outB

\* ---- C2.  Last-writer-wins: the resolver returns its local argument when
\* that one is strictly later and its remote argument when that one is
\* strictly later.  (On device B the local fingerprint is rRemote.)
C2_LastWriterWins ==
    /\ outA /= <<>> =>
          /\ rLocal.last_modified > rRemote.last_modified => outA[1] = rLocal
          /\ rRemote.last_modified > rLocal.last_modified => outA[1] = rRemote
    /\ outB /= <<>> =>
          /\ rRemote.last_modified > rLocal.last_modified => outB[1] = rRemote
          /\ rLocal.last_modified > rRemote.last_modified => outB[1] = rLocal

\* Both devices have resolved a pair of different contents in which A's local
\* fingerprint is the later one: local wins on A, remote wins on B.
C2_Witness ==
    /\ outA /= <<>>
    /\ outB /= <<>>
    /\ rLocal.last_modified > rRemote.last_modified
    /\ rLocal.hash /= rRemote.hash
    /\ outA[1] = rLocal
    /\ outB[1] = rLocal

\* ---- C3.  On a tie of modified_at with differing content_hash the resolver
\* returns the fingerprint with the lexicographically greater content_hash,
\* whichever argument it is.
C3_TieBrokenByGreaterHash ==
    (/\ outA /= <<>>
     /\ rLocal.last_modified = rRemote.last_modified
     /\ rLocal.hash /= rRemote.hash)
    => outA[1] = (IF StrGreater(rLocal.hash, rRemote.hash) THEN rLocal ELSE rRemote)

\* ---- C4.  While one changed path is propagated, every device before the
\* loop's position has had exactly one send attempt, has received exactly one
\* FileChange for the path if it is reachable and none if it is not, and the
\* devices from the loop's position on have had none; the loop is left only
\* after the last device, or by a return from main before any attempt.
SendLoopState ==
    pc = "send" =>
        \A i \in 1..Len(Devices) :
            LET d == Devices[i]
                rel == strip_prefix(Head(paths), worlds_path)
            IN  /\ attempts[d] = IF i < devIdx THEN 1 ELSE 0
                /\ received[d] = IF i < devIdx /\ d \in up
                                 THEN <<[path |-> rel[1], change_type |-> kind]>>
                                 ELSE <<>>

SendLoopRunsToTheEnd ==
    (pc = "send" /\ pc' /= "send") =>
        \/ devIdx > Len(Devices)
        \/ \A d \in DeviceSet : attempts[d] = 0

C5_NoSendForUnchangedFingerprint ==
    (pc = "send" /\ computed /= <<>> /\ computed = cachedBefore)
    => \A d \in DeviceSet : attempts[d] = 0

\* ---- C6.  Once the coordinator is Watching, no step takes it out of the
\* event loop: from Watching or Propagating it goes to Watching or
\* Propagating, whatever fails while an event is processed.
StaysInEventLoop == (pc \in Looping) => (pc' \in Looping)

C6_EventLoopNeverExits == [][StaysInEventLoop]_vars

\* ---- C7.  A bind failure is process-fatal: once the listener has failed to
\* bind, the only step main takes is to exit.
OnlyExitAfterBindFailure == (srv = "bind_failed" /\ pc' /= pc) => (pc' \in Exited)

C7_BindFailureIsFatal == [][OnlyExitAfterBindFailure]_vars

\* ---- C8.  The step that ends one connection's handler (a framing error or
\* the peer's disconnect, read by that handler) leaves the listener as it
\* was and leaves every other connection open, with its unread and its
\* dispatched messages untouched.
ConnectionEndIsLocal ==
    \A c \in Conns :
        (conn[c] = "open" /\ conn'[c] = "closed") =>
            /\ inbox[c] /= <<>>
            /\ Head(inbox[c]).item \in {"err", "eof"}
            /\ srv' = srv
            /\ \A d \in Conns \ {c} :
                  /\ conn'[d] = conn[d]
                  /\ inbox'[d] = inbox[d]
                  /\ dispatched'[d] = dispatched[d]

C8_ConnectionFailureIsLocal == [][ConnectionEndIsLocal]_vars

\* Connection 1 has just ended on a framing error while the listener listens
\* and connection 2 is open with a message still to read.
C8_Witness ==
    /\ conn[1] = "closed"
    /\ log = <<Line("error", "Error receiving message", 1)>>
    /\ srv = "listening"
    /\ conn[2] = "open"
    /\ inbox[2] /= <<>>
    /\ Head(inbox[2]).item = "frame"

\* ---- C9.  When the handler of a connection reads a well-delimited frame
\* whose body is no SyncMessage, it drops it, writes a warning to the log and
\* keeps the connection open.
ReadsUndecodable(c) ==
    /\ conn[c] = "open"
    /\ inbox[c] /= <<>>
    /\ Head(inbox[c]).item = "frame"
    /\ from_slice(Head(inbox[c]).bytes) = <<>>
    /\ inbox'[c] = Tail(inbox[c])

DropsWithWarning ==
    \A c \in Conns :
        ReadsUndecodable(c) =>
            /\ conn'[c] = "open"
            /\ dispatched'[c] = dispatched[c]
            /\ \E i \in 1..Len(log') : log'[i].level = "warn" /\ log'[i].conn = c

C9_UndecodableDroppedWithWarning == [][DropsWithWarning]_vars

\* ---- C10.  When the handler dispatches FileContent{path, bytes}, the file
\* at path under the sync root then holds bytes and the fingerprint table
\* maps path to the fingerprint of bytes.
DispatchesFileContent(c) ==
    /\ conn[c] = "open"
    /\ inbox[c] /= <<>>
    /\ Head(inbox[c]).item = "frame"
    /\ from_slice(Head(inbox[c]).bytes) /= <<>>
    /\ from_slice(Head(inbox[c]).bytes)[1].tag = "FileContent"
    /\ inbox'[c] = Tail(inbox[c])

WritesFileContent ==
    \A c \in Conns :
        DispatchesFileContent(c) =>
            LET m == from_slice(Head(inbox[c]).bytes)[1]
                full == BasePath \o m.path
            IN  /\ full \in FilePaths
                /\ fs'[full] /= Absent
                /\ fs'[full][1].content = m.data
                /\ m.path \in DOMAIN file_cache'
                /\ file_cache'[m.path].path = m.path
                /\ file_cache'[m.path].size = Len(m.data)
                /\ file_cache'[m.path].hash = Sha256Hex(m.data)

C10_FileContentIsWritten == [][WritesFileContent]_vars

\* ---- C11.  The inbound content writer rejects every relative path with a
\* parent-directory segment: the call returns an error and no file, inside
\* or outside the sync root, is created or modified.
HasParentDir(path) == \E i \in 1..Len(path) : path[i] = ParentDir

RejectsParentDir ==
    (HasParentDir(wPath) /\ wResult = <<>> /\ wResult' /= <<>>) =>
        (wResult' = <<"err">> /\ wDisk' = wDisk)

C11_WriterRejectsParentDir == [][RejectsParentDir]_vars

\* ---- C12.  A full scan is not aborted by a single unreadable file: when
\* the root directory itself can be read, the scan returns successfully and
\* has cached every file that could be read.
C12_ScanSkipsUnreadableFile ==
    (scanned /= <<>> /\ scanned[1].dirOk) =>
        /\ scanned[1].ok
        /\ \A p \in Present(fs) \ scanned[1].unreadable :
              strip_prefix(p, BasePath)[1] \in DOMAIN file_cache

\* ---- C13.  Every mutation of the fingerprint table happens while main
\* holds the file manager's mutex, the mutex has at most one holder, and it
\* is free whenever main is connecting or sending: the lock taken for a
\* changed path is released before the first send for that path.
LockFreeWhileSending ==
    /\ guard \in {"free", "main"}
    /\ pc = "send" => guard = "free"

MutationUnderLock ==
    (file_cache' /= file_cache /\ pc' \notin Exited) => guard = "main"

C13_StoreMutatedUnderLockOnly == [](LockFreeWhileSending) /\ [][MutationUnderLock]_vars

C13_Witness ==
    /\ pc = "send"
    /\ devIdx = 1
    /\ guard = "free"
    /\ computed /= <<>>
    /\ cachedBefore /= computed

\* ---- C14.  No entry is ever removed from the fingerprint table: while the
\* process runs, every key of the table stays a key through every scan and
\* every single-path update, also when the file behind it has been deleted.
KeysOnlyGrow ==
    pc' \notin Exited => DOMAIN file_cache \subseteq DOMAIN file_cache'

C14_NoEntryRemoved == [][KeysOnlyGrow]_vars

C14_Witness ==
    /\ pc = "send"
    /\ kind = "Remove"
    /\ fs[Head(paths)] = Absent
    /\ strip_prefix(Head(paths), BasePath)[1] \in DOMAIN file_cache

\* ---- C15.  One send operation opens exactly one outbound connection,
\* writes exactly one framed message on it and closes it: every connection
\* opened by send_file_change carries one frame, the FileChange of the path
\* in hand, followed by the end of the stream, and the listener has received
\* exactly one message per connection opened.
OneFrameThenClose(t) ==
    /\ Len(t) = 2
    /\ t[1].item = "frame"
    /\ from_slice(t[1].bytes) =
          <<FileChangeMsg(strip_prefix(Head(paths), worlds_path)[1], kind)>>
    /\ t[2] = Eof

C16_FramingIndependentOfChunking ==
    /\ IsPrefix(fOut, fMsgs)
    /\ (fWire = <<>> /\ decode(fBuf).frame = <<>>) => (fOut = fMsgs /\ fBuf = <<>>)

C16_Witness ==
    /\ fOut = fMsgs
    /\ fMsgs[1] /= fMsgs[2]
    /\ Len(fMsgs[1]) > 0
    /\ fChunks = Len(encode(fMsgs[1])) + Len(encode(fMsgs[2]))

\* ---- C17.  Changed paths are processed strictly one after another in the
\* order the watcher reported them: the path in hand is always the oldest
\* change not yet propagated, and main turns to the next path, or back to
\* waiting, only when every device has had its send attempt for this one.
OldestChangeInHand ==
    pc \in Propagating =>
        /\ pending /= <<>>
        /\ Head(pending) = [kind |-> kind, path |-> Head(paths)]

FinishesBeforeNext ==
    /\ (pc /= "update" /\ pc' = "update") =>
          \/ pc = "recv"
          \/ pc = "send" /\ \A d \in DeviceSet : attempts[d] = 1
    /\ (pc = "send" /\ pc' \notin {"send"} \cup Exited) =>
          /\ \A d \in DeviceSet : attempts[d] = 1
          /\ pending' = Tail(pending)
          /\ pc' = IF Len(paths) > 1 THEN "update" ELSE "recv"

C17_ChangesProcessedInOrder == [](OldestChangeInHand) /\ [][FinishesBeforeNext]_vars

C17_Witness ==
    /\ pc = "send"
    /\ devIdx > Len(Devices)
    /\ rx /= <<>>
    /\ Len(pending) >= 2
    /\ pending[1].kind /= pending[2].kind

\* ---- C18.  The messages of one connection are dispatched in the order
\* they were sent, one at a time: what the handler has dispatched is always
\* the beginning of what the peer has sent on that connection, and one turn
\* of the handler dispatches at most one message, on one connection.
DispatchedInSendOrder == \A c \in Conns : IsPrefix(dispatched[c], written[c])

OneMessageAtATime ==
    \A c \in Conns :
        dispatched'[c] /= dispatched[c] =>
            /\ Len(dispatched'[c]) = Len(dispatched[c]) + 1
            /\ \A o \in Conns \ {c} : dispatched'[o] = dispatched[o]

C18_DispatchedInSendOrder == [](DispatchedInSendOrder) /\ [][OneMessageAtATime]_vars

C18_Witness ==
    \E c \in Conns :
        /\ Len(dispatched[c]) = 2
        /\ dispatched[c] = written[c]
        /\ dispatched[c][1] /= dispatched[c][2]

\* ---- C19.  No event is consumed before the initial scan has finished, and
\* a scan in which only single files failed still leads to watching: when
\* the root directory itself could be read, the step that ends the scan
\* goes on to watch the directory.
ConsumesOnlyAfterScan ==
    (Len(rx') < Len(rx) /\ pc' \notin Exited) => pc \in Watching

PartialScanStillWatches ==
    (pc = "scan" /\ pc' /= "scan" /\ scanned'[1].dirOk) => pc' = "watch"

C19_WatchingFollowsPartialScan ==
    [][ConsumesOnlyAfterScan /\ PartialScanStillWatches]_vars

\* ---- C20.  When recomputing the fingerprint of a changed path fails (its
\* metadata cannot be read, or its content cannot be hashed), the update
\* step leaves the whole fingerprint table as it was, and main leaves the
\* propagation of that path only after every configured device has had its
\* send attempt, every reachable one having received the FileChange.
RecomputeFailed ==
    /\ computed = <<>>
    /\ \/ metadata(fs, Head(paths)) = Absent
       \/ strip_prefix(Head(paths), worlds_path) /= <<>>

FailedRecomputeStillSends ==
    /\ (pc = "update" /\ pc' = "send" /\ computed' = <<>>) => file_cache' = file_cache
    /\ (pc = "send" /\ pc' /= "send" /\ RecomputeFailed) =>
          \A d \in DeviceSet :
              /\ attempts[d] = 1
              /\ d \in up => Len(received[d]) = 1 /\ received[d][1].change_type = kind

C20_FailedRecomputeStillSends == [][FailedRecomputeStillSends]_vars

\* ---- C21.  In every reachable state every entry of the fingerprint table
\* is stored under the key equal to its own path field, and that path is
\* relative to the sync root: the key joined to the base path of the file
\* manager names a file under it, and the entry the event loop has just
\* stored for the path in hand is keyed by that path taken relative to the
\* base path.
KeyIsOwnPath == \A k \in DOMAIN file_cache : file_cache[k].path = k

KeyRelativeToSyncRoot ==
    /\ \A k \in DOMAIN file_cache : join(BasePath, k) \in FilePaths
    /\ (pc = "send" /\ computed /= <<>>) => join(BasePath, computed[1].path) = Head(paths)

C21_EntriesKeyedByRelativePath == KeyIsOwnPath /\ KeyRelativeToSyncRoot
====
